---- MODULE Spec2Model ----
(***************************************************************************)
(* Model of the agentic career advisor: main.py (AgentRole, StudentProfile, *)
(* CareerAdvisorAgent, AgenticCareerAdvisor) and api_server.py (the        *)
(* FastAPI handlers).                                                       *)
(*                                                                         *)
(* Text is a sequence of tokens.  The characters Python's repr() treats     *)
(* specially (newline, tab, carriage return, both quotes, backslash, and    *)
(* the other non-printable characters, which form feed stands for) are      *)
(* always tokens of their own; every other token is a chunk of printable    *)
(* text free of those characters.                                           *)
(* An optional value (Python None or a value) is <<>> or <<v>>.             *)
(***************************************************************************)
EXTENDS Integers, Sequences, FiniteSets, TLC

VARIABLES
    env,        \* os.getenv("ANTHROPIC_API_KEY"): None, "" or a key
    entry,      \* "api_server" (uvicorn loads api_server.py) or "library" (main.py used directly)
    pc,         \* "boot", "idle", "await" (inside messages.create), "done", "exit"
    advisor,    \* None or the AgenticCareerAdvisor: its api_key and its role -> agent dict
    created,    \* the CareerAdvisorAgent objects constructed so far, in order
    served,     \* requests (direct calls) started so far
    req,        \* the request being handled: its endpoint and inputs
    stage,      \* which call of the handler is in flight
    locals,     \* base_profile, skills_analysis, career_matches of the running handler
    calls,      \* the messages.create calls of the request, each with its outcome
    resp        \* None or the response (HTTP status and body) of the request

vars == <<env, entry, pc, advisor, created, served, req, stage, locals, calls, resp>>

\* ---------------------------------------------------------------- bounds
MaxItems == 2       \* longest skills list of a request profile
MaxBlocks == 2      \* most content blocks in one model response
MaxServed == 2      \* requests (or direct calls) a run goes through

\* ------------------------------------------------------------------ text
NL == "\n"
SQ == "'"
DQ == "\""
BS == "\\"
TAB == "\t"
CR == "\r"
FF == "\f"     \* a non-printable character without a short escape (U+000C)

None == <<>>
Some(v) == <<v>>

Flatten(ss) ==
    LET RECURSIVE F(_)
        F(i) == IF i > Len(ss) THEN <<>> ELSE ss[i] \o F(i + 1)
    IN F(1)

\* sep.join(items), items a sequence of texts
Join(sep, items) ==
    LET RECURSIVE J(_)
        J(i) == IF i > Len(items) THEN <<>>
                ELSE IF i = 1 THEN items[1] \o J(2)
                ELSE sep \o items[i] \o J(i + 1)
    IN J(1)

HasTok(s, t) == \E i \in 1..Len(s) : s[i] = t

Contains(hay, needle) ==
    \E i \in 1..(Len(hay) - Len(needle) + 1) :
        SubSeq(hay, i, i + Len(needle) - 1) = needle

\* Python repr() of a str: single quotes unless the text has a single quote
\* and no double quote; the backslash and the chosen quote are escaped with
\* a backslash, newline, tab and carriage return become \n, \t and \r, and
\* any other non-printable character becomes \xNN (form feed: \x0c).
Repr(s) ==
    LET q == IF HasTok(s, SQ) /\ ~HasTok(s, DQ) THEN DQ ELSE SQ
        Esc(t) == IF t = BS THEN <<BS, BS>>
                  ELSE IF t = NL THEN <<BS, "n">>
                  ELSE IF t = TAB THEN <<BS, "t">>
                  ELSE IF t = CR THEN <<BS, "r">>
                  ELSE IF t = FF THEN <<BS, "x0c">>
                  ELSE IF t = q THEN <<BS, q>>
                  ELSE <<t>>
    IN <<q>> \o Flatten([i \in 1..Len(s) |-> Esc(s[i])]) \o <<q>>

\* Python str() of a dict given as a sequence of <<key, value>> pairs
DictStr(d) ==
    <<"{">> \o Join(<<", ">>, [i \in 1..Len(d) |-> Repr(d[i][1]) \o <<": ">> \o Repr(d[i][2])])
            \o <<"}">>

\* ----------------------------------------------------------------- roles
COORDINATOR == "coordinator"
SKILLS_ANALYZER == "skills_analyzer"
CAREER_MATCHER == "career_matcher"
LEARNING_PATHFINDER == "learning_pathfinder"
INDUSTRY_RESEARCHER == "industry_researcher"

AgentRole == {COORDINATOR, SKILLS_ANALYZER, CAREER_MATCHER, LEARNING_PATHFINDER,
              INDUSTRY_RESEARCHER}

ModelName == "claude-sonnet-4-20250514"
MaxTokens == 2000

get_system_prompt_AlwaysCoordinator(role) ==
    <<"You are a Career Advisor Coordinator. Your role is to:", NL,
      "1. Understand student queries and profiles", NL,
      "2. Delegate tasks to specialized agents", NL,
      "3. Synthesize responses from all agents into coherent career advice", NL,
      "4. Ensure all aspects of career planning are covered">>

get_system_prompt(role) ==
    CASE role = COORDINATOR ->
           <<"You are a Career Advisor Coordinator. Your role is to:", NL,
             "1. Understand student queries and profiles", NL,
             "2. Delegate tasks to specialized agents", NL,
             "3. Synthesize responses from all agents into coherent career advice", NL,
             "4. Ensure all aspects of career planning are covered">>
      [] role = SKILLS_ANALYZER ->
           <<"You are a Skills Analysis Agent. Your role is to:", NL,
             "1. Analyze student", SQ, "s current skills and experiences", NL,
             "2. Identify skill gaps for desired careers", NL,
             "3. Assess transferable skills", NL,
             "4. Provide skill development recommendations">>
      [] role = CAREER_MATCHER ->
           <<"You are a Career Matching Agent. Your role is to:", NL,
             "1. Match student profiles with suitable career paths", NL,
             "2. Consider interests, skills, and market demand", NL,
             "3. Provide career options with growth potential", NL,
             "4. Explain why each career is a good fit">>
      [] role = LEARNING_PATHFINDER ->
           <<"You are a Learning Path Agent. Your role is to:", NL,
             "1. Design personalized learning roadmaps", NL,
             "2. Recommend courses, certifications, and resources", NL,
             "3. Create timeline-based learning plans", NL,
             "4. Suggest practical projects and experiences">>
      [] role = INDUSTRY_RESEARCHER ->
           <<"You are an Industry Research Agent. Your role is to:", NL,
             "1. Provide current industry trends and insights", NL,
             "2. Analyze job market conditions", NL,
             "3. Share salary expectations and growth projections", NL,
             "4. Identify emerging opportunities in various sectors">>

\* CareerAdvisorAgent.__init__
NewAgent(role, api_key) == [role |-> role, api_key |-> api_key, model |-> ModelName]

\* ------------------------------------------------------- process (pure part)
Truthy(opt) == opt # None /\ opt[1] # <<>>

process_messages_NoBlankLine(query, context) ==
    IF Truthy(context)
    THEN << [role |-> "user",
             content |-> <<"Context: ">> \o DictStr(context[1]) \o query] >>
    ELSE << [role |-> "user", content |-> query] >>

\* the messages list process() builds from (query, context)
process_messages(query, context) ==
    IF Truthy(context)
    THEN << [role |-> "user",
             content |-> <<"Context: ">> \o DictStr(context[1]) \o <<NL, NL>> \o query] >>
    ELSE << [role |-> "user", content |-> query] >>

\* the keyword arguments of client.messages.create, plus the client's key
process_request(agent, query, context) ==
    [agent |-> agent.role,
     api_key |-> agent.api_key,
     model |-> agent.model,
     max_tokens |-> MaxTokens,
     system |-> get_system_prompt(agent.role),
     messages |-> process_messages(query, context)]

\* ------------------------------------------------------------------ inputs
Names == {<<"Alex Johnson">>, <<"O", SQ, "Neil">>}
SkillPool == << <<"Python">>, <<"C", BS, "C++ ", DQ, "systems", DQ>>, <<"SQL">>, <<"Go">> >>
IndustryNames == {<<"fintech">>, <<"AI", NL, "Student Profile:", NL, "- Name: ML">>}
ApiKeys == {None, Some(<<>>), Some(<<"sk-arg">>)}        \* the api_key argument
EnvValues == {None, Some(<<>>), Some(<<"sk-env">>)}      \* os.getenv("ANTHROPIC_API_KEY")
Replies == {<<"Reply one.">>, <<"Second", NL, SQ, "reply", SQ>>}
ExcMessages == {"Connection error.", "rate_limit_error: too many requests"}

Min(a, b) == IF a < b THEN a ELSE b

\* the skills lists tried: the first k entries of SkillPool
SkillLists == {SubSeq(SkillPool, 1, k) : k \in 0..Min(MaxItems, Len(SkillPool))}

\* response contents tried: no block, or k text blocks, the first with one
\* reply text and the others with another (or the same) text
Contents ==
    {<<>>} \cup
    {[i \in 1..k |-> [type |-> "text", text |-> IF i = 1 THEN t ELSE u]] :
        t \in Replies, u \in Replies, k \in 1..MaxBlocks}

\* StudentProfileRequest bodies that passed request validation
Profiles ==
    [name : Names,
     education_level : {<<"Bachelor (3rd year)">>},
     major : {<<"Computer Science">>},
     skills : SkillLists,
     interests : {<< <<"AI/ML">>, <<"Problem Solving">> >>},
     career_goals : {<<"Work in AI/ML", TAB, "or research", CR, FF>>},
     experience : {<< >>}]

\* what client.messages.create can do: raise, or return a response whose
\* content is a list of text blocks
Outcomes ==
    {[kind |-> "raise", exc |-> m, content |-> <<>>] : m \in ExcMessages}
    \cup {[kind |-> "response", exc |-> "", content |-> c] : c \in Contents}

\* -------------------------------------------------------------- main.py
convert_to_base_profile(profile) ==
    [name |-> profile.name,
     education_level |-> profile.education_level,
     major |-> profile.major,
     skills |-> profile.skills,
     interests |-> profile.interests,
     career_goals |-> profile.career_goals,
     experience |-> profile.experience]

create_student_context(profile) ==
    <<NL, "Student Profile:", NL, "- Name: ">> \o profile.name
    \o <<NL, "- Education: ">> \o profile.education_level \o <<" in ">> \o profile.major
    \o <<NL, "- Skills: ">> \o Join(<<", ">>, profile.skills)
    \o <<NL, "- Interests: ">> \o Join(<<", ">>, profile.interests)
    \o <<NL, "- Career Goals: ">> \o profile.career_goals
    \o <<NL, "- Experience: ">> \o Join(<<", ">>, profile.experience)
    \o <<NL>>

\* target_career values tried: a plain one, and one that is itself the text of
\* a serialized profile (the field is free text)
EchoProfile == CHOOSE p \in Profiles : p.name = <<"Alex Johnson">> /\ p.skills = <<>>
TargetCareers == {<<"Machine Learning Engineer">>, create_student_context(EchoProfile)}

ProfileContext(profile) == Some(<< <<<<"profile">>, create_student_context(profile)>> >>)

AgentCall(role, query, context) == [role |-> role, query |-> query, context |-> context]

analyze_skills_NoContext(profile) ==
    AgentCall(SKILLS_ANALYZER,
              <<"Analyze this student", SQ,
                "s skills and provide recommendations for skill development.">>,
              None)

analyze_skills(profile) ==
    AgentCall(SKILLS_ANALYZER,
              <<"Analyze this student", SQ,
                "s skills and provide recommendations for skill development.">>,
              ProfileContext(profile))

find_career_matches(profile) ==
    AgentCall(CAREER_MATCHER,
              <<"Based on this student", SQ,
                "s profile, suggest 3-5 career paths that would be good matches.">>,
              ProfileContext(profile))

create_learning_path(profile, target_career) ==
    AgentCall(LEARNING_PATHFINDER,
              <<"Create a detailed learning path for this student to pursue a career in ">>
                  \o target_career \o <<".">>,
              ProfileContext(profile))

research_industry(industry) ==
    AgentCall(INDUSTRY_RESEARCHER,
              <<"Provide current trends, job market insights, and opportunities in the ">>
                  \o industry \o <<" industry.">>,
              None)

coordinator_query_DropsAnalysis(skills_analysis, career_matches, profile) ==
    <<NL, "Based on the following analyses, provide comprehensive career advice:", NL, NL,
      "SKILLS ANALYSIS:", NL>> \o career_matches
    \o <<NL, NL, "CAREER MATCHES:", NL>> \o career_matches
    \o <<NL, NL, "Student Profile:", NL>> \o create_student_context(profile)
    \o <<NL, NL, "Provide a cohesive career action plan.", NL>>

coordinator_query(skills_analysis, career_matches, profile) ==
    <<NL, "Based on the following analyses, provide comprehensive career advice:", NL, NL,
      "SKILLS ANALYSIS:", NL>> \o skills_analysis
    \o <<NL, NL, "CAREER MATCHES:", NL>> \o career_matches
    \o <<NL, NL, "Student Profile:", NL>> \o create_student_context(profile)
    \o <<NL, NL, "Provide a cohesive career action plan.", NL>>

\* the last call of get_comprehensive_advice
coordinate(skills_analysis, career_matches, profile) ==
    AgentCall(COORDINATOR, coordinator_query(skills_analysis, career_matches, profile), None)

\* the dict get_comprehensive_advice returns
advice_dict(skills_analysis, career_matches, final_advice) ==
    [skills_analysis |-> skills_analysis,
     career_matches |-> career_matches,
     action_plan |-> final_advice]

process_return_Stripped(o) ==
    IF o.kind = "raise" THEN [ok |-> FALSE, value |-> <<>>, exc |-> o.exc]
    ELSE IF Len(o.content) = 0
         THEN [ok |-> FALSE, value |-> <<>>, exc |-> "list index out of range"]
         ELSE [ok |-> TRUE, value |-> SelectSeq(o.content[1].text, LAMBDA t : t # NL),
               exc |-> ""]

\* what process() does with the outcome of messages.create: the exception
\* propagates, response.content[0] raises IndexError on an empty list, else
\* the first block's text is returned
process_return(o) ==
    IF o.kind = "raise" THEN [ok |-> FALSE, value |-> <<>>, exc |-> o.exc]
    ELSE IF Len(o.content) = 0
         THEN [ok |-> FALSE, value |-> <<>>, exc |-> "list index out of range"]
         ELSE [ok |-> TRUE, value |-> o.content[1].text, exc |-> ""]

RoleOrder == <<COORDINATOR, SKILLS_ANALYZER, CAREER_MATCHER, LEARNING_PATHFINDER,
               INDUSTRY_RESEARCHER>>

ResolveKey_EnvFirst(api_key, envv) == IF Truthy(envv) THEN envv ELSE api_key

\* api_key or os.getenv("ANTHROPIC_API_KEY")
ResolveKey(api_key, envv) == IF Truthy(api_key) THEN api_key ELSE envv

\* AgenticCareerAdvisor.__init__: the ValueError, or the advisor and the
\* agents constructed for it, in construction order
AdvisorInit(api_key, envv) ==
    LET key == ResolveKey(api_key, envv)
    IN IF ~Truthy(key)
       THEN [raised |-> TRUE, exc |-> "ANTHROPIC_API_KEY not found",
             advisor |-> None, created |-> <<>>]
       ELSE [raised |-> FALSE, exc |-> "",
             advisor |-> Some([api_key |-> key[1],
                               agents |-> [r \in AgentRole |-> NewAgent(r, key[1])]]),
             created |-> [i \in 1..Len(RoleOrder) |-> NewAgent(RoleOrder[i], key[1])]]

\* ------------------------------------------------------------ api_server.py
HTTPException(status_code, detail) ==
    [kind |-> "http", status |-> status_code, body |-> [detail |-> detail]]

HTTPOk(body) == [kind |-> "http", status |-> 200, body |-> body]

\* outcome of a direct (library) call: a returned value or a raised exception
Returned(value) == [kind |-> "return", status |-> 0, body |-> [value |-> value]]
Raised(exc) == [kind |-> "raise", status |-> 0, body |-> [detail |-> exc]]

\* req is the request being handled: its endpoint and that endpoint's inputs
NoReq == [endpoint |-> ""]
NoLocals ==
    [base_profile |-> None, skills_analysis |-> <<>>, career_matches |-> <<>>]

ProfileReq(endpoint, profile) == [endpoint |-> endpoint, profile |-> profile]

root_body ==
    [message |-> "Agentic AI Career Advisor API",
     version |-> "1.0.0",
     endpoints |-> [skills_analysis |-> "/analyze/skills",
                    career_matches |-> "/match/careers",
                    learning_path |-> "/create/learning-path",
                    industry_research |-> "/research/industry/{industry_name}",
                    comprehensive_advice |-> "/advice/comprehensive"],
     docs |-> "/docs"]

health_body(adv) == [status |-> "healthy", advisor_initialized |-> adv # None]

ComprehensiveAdviceResponse(advice) ==
    [skills_analysis |-> advice.skills_analysis,
     career_matches |-> advice.career_matches,
     action_plan |-> advice.action_plan]

\* the single response field of the four one-call endpoints
SingleResponse(endpoint, text) ==
    CASE endpoint = "/analyze/skills" -> [analysis |-> text]
      [] endpoint = "/match/careers" -> [matches |-> text]
      [] endpoint = "/create/learning-path" -> [learning_path |-> text]
      [] endpoint = "/research/industry" -> [research |-> text]

\* ---------------------------------------------------------------- actions
Init ==
    /\ env \in EnvValues
    /\ entry \in {"api_server", "library"}
    /\ pc = "boot"
    /\ advisor = None
    /\ created = <<>>
    /\ served = 0
    /\ req = NoReq
    /\ stage = ""
    /\ locals = NoLocals
    /\ calls = <<>>
    /\ resp = None

\* api_server.py module body: try: advisor = AgenticCareerAdvisor()
\* except ValueError: advisor = None
Startup ==
    /\ pc = "boot" /\ entry = "api_server"
    /\ LET r == AdvisorInit(None, env)
       IN /\ advisor' = IF r.raised THEN None ELSE r.advisor
          /\ created' = r.created
    /\ pc' = "idle"
    /\ UNCHANGED <<env, entry, served, req, stage, locals, calls, resp>>

\* a program that uses main.py directly: advisor = AgenticCareerAdvisor(api_key)
Construct ==
    /\ pc = "boot" /\ entry = "library"
    /\ \E api_key \in ApiKeys :
         LET r == AdvisorInit(api_key, env)
         IN /\ advisor' = r.advisor
            /\ created' = r.created
            /\ pc' = IF r.raised THEN "exit" ELSE "idle"
            /\ resp' = IF r.raised THEN Some(Raised(r.exc)) ELSE None
            /\ req' = [endpoint |-> "__init__", api_key |-> api_key]
    /\ UNCHANGED <<env, entry, served, stage, locals, calls>>

\* the event loop is free: the handlers are coroutines that never await, so
\* one request is handled from its first line to its response before the next
Serving ==
    /\ entry = "api_server" /\ pc \in {"idle", "done"}
    /\ served < MaxServed
    /\ served' = served + 1

Send_Stateful(prior, c) ==
    /\ calls' = Append(prior,
                       [request |-> process_request(advisor[1].agents[c.role], c.query, c.context),
                        outcome |-> None])
    /\ advisor' = Some([advisor[1] EXCEPT !.agents[c.role].role = COORDINATOR])

\* process() up to client.messages.create: the request goes out on the agent
\* the advisor holds for the role; nothing of the advisor or agent is assigned
Send(prior, c) ==
    /\ calls' = Append(prior,
                       [request |-> process_request(advisor[1].agents[c.role], c.query, c.context),
                        outcome |-> None])
    /\ advisor' = advisor

\* if not advisor: raise HTTPException(status_code=500, ...)
NotInitialized_Ok(r) ==
    /\ req' = r
    /\ resp' = Some(HTTPOk([detail |-> "Advisor not initialized"]))
    /\ pc' = "done"
    /\ calls' = <<>>
    /\ stage' = ""
    /\ locals' = NoLocals
    /\ UNCHANGED <<env, entry, advisor, created>>

NotInitialized(r) ==
    /\ req' = r
    /\ resp' = Some(HTTPException(500, "Advisor not initialized"))
    /\ pc' = "done"
    /\ calls' = <<>>
    /\ stage' = ""
    /\ locals' = NoLocals
    /\ UNCHANGED <<env, entry, advisor, created>>

\* a handler from its first line to its first messages.create
Handle(r, st, base, c) ==
    IF advisor = None
    THEN NotInitialized(r)
    ELSE /\ req' = r
         /\ resp' = None
         /\ pc' = "await"
         /\ stage' = st
         /\ locals' = [NoLocals EXCEPT !.base_profile = base]
         /\ Send(<<>>, c)
         /\ UNCHANGED <<env, entry, created>>

Root ==
    /\ Serving
    /\ req' = [endpoint |-> "/"]
    /\ resp' = Some(HTTPOk(root_body))
    /\ pc' = "done" /\ calls' = <<>> /\ stage' = "" /\ locals' = NoLocals
    /\ UNCHANGED <<env, entry, advisor, created>>

HealthCheck ==
    /\ Serving
    /\ req' = [endpoint |-> "/health"]
    /\ resp' = Some(HTTPOk(health_body(advisor)))
    /\ pc' = "done" /\ calls' = <<>> /\ stage' = "" /\ locals' = NoLocals
    /\ UNCHANGED <<env, entry, advisor, created>>

AnalyzeSkills ==
    /\ Serving
    /\ \E profile \in Profiles :
         LET base == convert_to_base_profile(profile)
         IN Handle(ProfileReq("/analyze/skills", profile), "single", Some(base),
                   analyze_skills(base))

MatchCareers ==
    /\ Serving
    /\ \E profile \in Profiles :
         LET base == convert_to_base_profile(profile)
         IN Handle(ProfileReq("/match/careers", profile), "single", Some(base),
                   find_career_matches(base))

CreateLearningPath ==
    /\ Serving
    /\ \E profile \in Profiles, target \in TargetCareers :
         LET base == convert_to_base_profile(profile)
         IN Handle([endpoint |-> "/create/learning-path", profile |-> profile,
                    target_career |-> target],
                   "single", Some(base), create_learning_path(base, target))

ResearchIndustry ==
    /\ Serving
    /\ \E industry_name \in IndustryNames :
         Handle([endpoint |-> "/research/industry", industry_name |-> industry_name],
                "single", None, research_industry(industry_name))

\* comprehensive_advice up to the first call of get_comprehensive_advice
ComprehensiveAdvice ==
    /\ Serving
    /\ \E profile \in Profiles :
         LET base == convert_to_base_profile(profile)
         IN Handle(ProfileReq("/advice/comprehensive", profile), "skills", Some(base),
                   analyze_skills(base))

Logged(o) == [calls EXCEPT ![Len(calls)].outcome = Some(o)]

HandlerExcept_Retry(logged, exc) ==
    /\ calls' = Append(logged, [request |-> logged[Len(logged)].request, outcome |-> None])
    /\ UNCHANGED <<env, entry, advisor, created, served, req, stage, locals, pc, resp>>

HandlerExcept_Generic(logged, exc) ==
    /\ calls' = logged
    /\ resp' = Some(HTTPException(500, "Internal Server Error"))
    /\ pc' = "done"
    /\ UNCHANGED <<env, entry, advisor, created, served, req, stage, locals>>

\* except Exception as e: raise HTTPException(status_code=500, detail=str(e))
HandlerExcept(logged, exc) ==
    /\ calls' = logged
    /\ resp' = Some(HTTPException(500, exc))
    /\ pc' = "done"
    /\ UNCHANGED <<env, entry, advisor, created, served, req, stage, locals>>

\* the model call of a one-call endpoint ends; the handler returns or raises
SingleReturns ==
    /\ entry = "api_server" /\ pc = "await" /\ stage = "single"
    /\ \E o \in Outcomes :
         LET r == process_return(o)
         IN IF ~r.ok
            THEN HandlerExcept(Logged(o), r.exc)
            ELSE /\ calls' = Logged(o)
                 /\ resp' = Some(HTTPOk(SingleResponse(req.endpoint, r.value)))
                 /\ pc' = "done"
                 /\ UNCHANGED <<env, entry, advisor, created, served, req, stage, locals>>

\* get_comprehensive_advice: analyze_skills ends, find_career_matches starts
SkillsReturns ==
    /\ entry = "api_server" /\ pc = "await" /\ stage = "skills"
    /\ \E o \in Outcomes :
         LET r == process_return(o)
         IN IF ~r.ok
            THEN HandlerExcept(Logged(o), r.exc)
            ELSE /\ locals' = [locals EXCEPT !.skills_analysis = r.value]
                 /\ stage' = "careers"
                 /\ Send(Logged(o), find_career_matches(locals.base_profile[1]))
                 /\ UNCHANGED <<env, entry, created, served, req, pc, resp>>

\* get_comprehensive_advice: find_career_matches ends, the coordinator starts
CareersReturns ==
    /\ entry = "api_server" /\ pc = "await" /\ stage = "careers"
    /\ \E o \in Outcomes :
         LET r == process_return(o)
         IN IF ~r.ok
            THEN HandlerExcept(Logged(o), r.exc)
            ELSE /\ locals' = [locals EXCEPT !.career_matches = r.value]
                 /\ stage' = "coordinator"
                 /\ Send(Logged(o),
                         coordinate(locals.skills_analysis, r.value, locals.base_profile[1]))
                 /\ UNCHANGED <<env, entry, created, served, req, pc, resp>>

\* get_comprehensive_advice returns its dict; the handler builds the response
CoordinatorReturns ==
    /\ entry = "api_server" /\ pc = "await" /\ stage = "coordinator"
    /\ \E o \in Outcomes :
         LET r == process_return(o)
         IN IF ~r.ok
            THEN HandlerExcept(Logged(o), r.exc)
            ELSE /\ calls' = Logged(o)
                 /\ resp' = Some(HTTPOk(ComprehensiveAdviceResponse(
                                advice_dict(locals.skills_analysis, locals.career_matches,
                                            r.value))))
                 /\ pc' = "done"
                 /\ UNCHANGED <<env, entry, advisor, created, served, req, stage, locals>>

\* ----------------------------------------------- direct use of process()
DirectQueries == {<<"What next?">>, <<>>}
DirectContexts ==
    {None, Some(<<>>),
     Some(<< <<<<"profile">>, <<NL, "Student Profile:", NL, "- Name: O", SQ, "Neil", NL>> >> >>),
     Some(<< <<<<"a">>, <<"x", DQ, SQ>> >>, <<<<"b">>, <<BS, "y", TAB, "z", CR, FF>> >> >>)}

\* advisor.agents[role].process(query, context) called by library code
DirectProcess ==
    /\ entry = "library" /\ pc \in {"idle", "done"}
    /\ served < MaxServed
    /\ served' = served + 1
    /\ \E role \in AgentRole, query \in DirectQueries, context \in DirectContexts :
         /\ req' = [endpoint |-> "process", role |-> role, query |-> query,
                    context |-> context]
         /\ Send(<<>>, AgentCall(role, query, context))
    /\ locals' = NoLocals
    /\ pc' = "await"
    /\ stage' = "direct"
    /\ resp' = None
    /\ UNCHANGED <<env, entry, created>>

DirectReturns ==
    /\ entry = "library" /\ pc = "await" /\ stage = "direct"
    /\ \E o \in Outcomes :
         LET r == process_return(o)
         IN /\ calls' = Logged(o)
            /\ resp' = Some(IF r.ok THEN Returned(r.value) ELSE Raised(r.exc))
    /\ pc' = "done"
    /\ UNCHANGED <<env, entry, advisor, created, served, req, stage, locals>>

Next ==
    \/ Startup
    \/ Construct
    \/ Root
    \/ HealthCheck
    \/ AnalyzeSkills
    \/ MatchCareers
    \/ CreateLearningPath
    \/ ResearchIndustry
    \/ ComprehensiveAdvice
    \/ SingleReturns
    \/ SkillsReturns
    \/ CareersReturns
    \/ CoordinatorReturns
    \/ DirectProcess
    \/ DirectReturns

Spec == Init /\ [][Next]_vars

\* ================================================================ claims
ProfileEndpoints ==
    {"/analyze/skills", "/match/careers", "/create/learning-path", "/advice/comprehensive"}
AdvisoryEndpoints == ProfileEndpoints \cup {"/research/industry"}

InRequest == entry = "api_server" /\ req.endpoint \in AdvisoryEndpoints

Answered(i) == calls[i].outcome # None
Failed(i) ==
    /\ Answered(i)
    /\ \/ calls[i].outcome[1].kind = "raise"
       \/ calls[i].outcome[1].content = <<>>
\* the text of the model's reply to call i
ReplyText(i) == calls[i].outcome[1].content[1].text
Content(i) == calls[i].request.messages[1].content
Succeeded == resp # None /\ resp[1].kind = "http" /\ resp[1].status = 200

\* C1: a comprehensive request calls the skills analyzer, the career matcher
\* and the coordinator in that order, each call only once every earlier one
\* has been answered with a reply; a successful request made exactly three
\* calls, and the coordinator's message contains both earlier replies.
C1_ComprehensiveSequence ==
    (InRequest /\ req.endpoint = "/advice/comprehensive") =>
        /\ Len(calls) <= 3
        /\ \A i \in 1..Len(calls) :
             calls[i].request.agent = <<SKILLS_ANALYZER, CAREER_MATCHER, COORDINATOR>>[i]
        /\ \A i \in 1..(Len(calls) - 1) : Answered(i) /\ ~Failed(i)
        /\ Succeeded => Len(calls) = 3
        /\ Len(calls) = 3 =>
             /\ Contains(Content(3), <<"SKILLS ANALYSIS:", NL>> \o ReplyText(1) \o <<NL>>)
             /\ Contains(Content(3), <<"CAREER MATCHES:", NL>> \o ReplyText(2) \o <<NL>>)

C1_Witness ==
    /\ InRequest /\ req.endpoint = "/advice/comprehensive"
    /\ Succeeded /\ Len(calls) = 3
    /\ ReplyText(1) # ReplyText(2)

\* C2: a successful response carries the model's reply text unchanged, each
\* field from the call it belongs to.
C2_ReplyVerbatim ==
    (InRequest /\ Succeeded) =>
        CASE req.endpoint = "/analyze/skills" ->
               Len(calls) = 1 /\ resp[1].body = [analysis |-> ReplyText(1)]
          [] req.endpoint = "/match/careers" ->
               Len(calls) = 1 /\ resp[1].body = [matches |-> ReplyText(1)]
          [] req.endpoint = "/create/learning-path" ->
               Len(calls) = 1 /\ resp[1].body = [learning_path |-> ReplyText(1)]
          [] req.endpoint = "/research/industry" ->
               Len(calls) = 1 /\ resp[1].body = [research |-> ReplyText(1)]
          [] req.endpoint = "/advice/comprehensive" ->
               /\ Len(calls) = 3
               /\ resp[1].body = [skills_analysis |-> ReplyText(1),
                                  career_matches |-> ReplyText(2),
                                  action_plan |-> ReplyText(3)]

C2_Witness ==
    /\ InRequest /\ Succeeded /\ req.endpoint = "/advice/comprehensive"
    /\ HasTok(ReplyText(1), NL)
    /\ ReplyText(1) # ReplyText(2) /\ ReplyText(2) = ReplyText(3)

\* str(e) of the exception a failed call raises in the handler
ExcText(i) ==
    IF calls[i].outcome[1].kind = "raise" THEN calls[i].outcome[1].exc
    ELSE "list index out of range"

\* C3: with the advisor initialized, a request in which a model call raised
\* (or returned no content block) ends with status 500 and the exception's
\* message as detail, and with no success response.
C3_ExceptionIs500 ==
    InRequest =>
        \A i \in 1..Len(calls) :
            Failed(i) =>
                /\ pc = "done"
                /\ resp = Some([kind |-> "http", status |-> 500,
                                body |-> [detail |-> ExcText(i)]])

C3_Witness ==
    /\ InRequest /\ req.endpoint = "/advice/comprehensive"
    /\ Len(calls) = 2 /\ Failed(2) /\ calls[2].outcome[1].kind = "raise"
    /\ resp # None /\ resp[1].status = 500

\* C4 as stated: every model call of the five operations sends one message
\* that contains create_student_context's output for a profile (the
\* request's own profile where the request has one).
C4_Original ==
    InRequest =>
        \A i \in 1..Len(calls) :
            /\ Len(calls[i].request.messages) = 1
            /\ IF req.endpoint \in ProfileEndpoints
               THEN Contains(Content(i), create_student_context(req.profile))
               ELSE \E p \in Profiles : Contains(Content(i), create_student_context(p))

\* the start of a message built with the context {'profile': ...}: the
\* dict rendered by str(), its value the repr() of the serialized profile
ContextPrefix(profile) ==
    <<"Context: ", "{", SQ, "profile", SQ, ": ">>
    \o Repr(create_student_context(profile)) \o <<"}", NL, NL>>

StartsWith(text, prefix) ==
    Len(text) >= Len(prefix) /\ SubSeq(text, 1, Len(prefix)) = prefix

\* C4 amended: the calls of analyze_skills, find_career_matches and
\* create_learning_path send one message that carries the request's profile
\* as the repr() of the create_student_context output (the value of the dict
\* {'profile': ...} rendered by str(), after "Context: " and before the
\* query); the coordinator's message contains the output verbatim;
\* research_industry takes no profile and sends its industry query alone.
C4_ProfileInMessage ==
    InRequest =>
        \A i \in 1..Len(calls) :
            /\ Len(calls[i].request.messages) = 1
            /\ CASE calls[i].request.agent = COORDINATOR ->
                      Contains(Content(i), create_student_context(req.profile))
                 [] calls[i].request.agent = INDUSTRY_RESEARCHER ->
                      Content(i) =
                           <<"Provide current trends, job market insights, and opportunities in the ">>
                           \o req.industry_name \o <<" industry.">>
                 [] OTHER ->
                      StartsWith(Content(i), ContextPrefix(req.profile))

C4_Witness ==
    /\ InRequest /\ req.endpoint = "/advice/comprehensive" /\ Len(calls) = 3
    /\ HasTok(req.profile.name, SQ) /\ Len(req.profile.skills) = 2

\* C5: a request makes at most one model call (three for comprehensive
\* advice), never the same agent twice, and a failed call is the last call
\* of its request: the request is over once the call has failed.
C5_NoRetry ==
    InRequest =>
        /\ Len(calls) <= (IF req.endpoint = "/advice/comprehensive" THEN 3 ELSE 1)
        /\ \A i, j \in 1..Len(calls) :
             i # j => calls[i].request.agent # calls[j].request.agent
        /\ \A i \in 1..Len(calls) : Failed(i) => (i = Len(calls) /\ pc = "done")

C5_Witness ==
    /\ InRequest /\ req.endpoint = "/advice/comprehensive"
    /\ Len(calls) = 1 /\ Failed(1) /\ pc = "done"

\* the request the handler sends for call i, computed from the request's
\* own inputs, the replies of its earlier calls and the advisor as it was
\* constructed
AgentAsCreated(role) ==
    created[CHOOSE k \in 1..Len(created) : created[k].role = role]
OwnRequest(i) ==
    CASE req.endpoint = "/analyze/skills" ->
           process_request(AgentAsCreated(SKILLS_ANALYZER),
                           analyze_skills(req.profile).query,
                           analyze_skills(req.profile).context)
      [] req.endpoint = "/match/careers" ->
           process_request(AgentAsCreated(CAREER_MATCHER),
                           find_career_matches(req.profile).query,
                           find_career_matches(req.profile).context)
      [] req.endpoint = "/create/learning-path" ->
           process_request(AgentAsCreated(LEARNING_PATHFINDER),
                           create_learning_path(req.profile, req.target_career).query,
                           create_learning_path(req.profile, req.target_career).context)
      [] req.endpoint = "/research/industry" ->
           process_request(AgentAsCreated(INDUSTRY_RESEARCHER),
                           research_industry(req.industry_name).query, None)
      [] req.endpoint = "/advice/comprehensive" /\ i = 1 ->
           process_request(AgentAsCreated(SKILLS_ANALYZER),
                           analyze_skills(req.profile).query,
                           analyze_skills(req.profile).context)
      [] req.endpoint = "/advice/comprehensive" /\ i = 2 ->
           process_request(AgentAsCreated(CAREER_MATCHER),
                           find_career_matches(req.profile).query,
                           find_career_matches(req.profile).context)
      [] req.endpoint = "/advice/comprehensive" /\ i = 3 ->
           process_request(AgentAsCreated(COORDINATOR),
                           coordinator_query(ReplyText(1), ReplyText(2), req.profile), None)

\* C6: handling requests never changes the advisor: its key, its agents and
\* each agent's role and model stay as constructed, and every model call of
\* a request is determined by that request's inputs and its own replies.
C6_NoCarriedState ==
    (entry = "api_server" /\ advisor # None) =>
        /\ advisor[1].api_key = env[1]
        /\ DOMAIN advisor[1].agents = AgentRole
        /\ \A k \in 1..Len(created) : advisor[1].agents[created[k].role] = created[k]
        /\ InRequest => \A i \in 1..Len(calls) : calls[i].request = OwnRequest(i)

C6_Witness ==
    /\ InRequest /\ served = 2 /\ Len(calls) = 1 /\ pc = "await"

OperationAgent(i) ==
    CASE req.endpoint = "/analyze/skills" -> SKILLS_ANALYZER
      [] req.endpoint = "/match/careers" -> CAREER_MATCHER
      [] req.endpoint = "/create/learning-path" -> LEARNING_PATHFINDER
      [] req.endpoint = "/research/industry" -> INDUSTRY_RESEARCHER
      [] req.endpoint = "/advice/comprehensive" ->
           <<SKILLS_ANALYZER, CAREER_MATCHER, COORDINATOR>>[i]
PromptTitle(role) ==
    CASE role = COORDINATOR -> "You are a Career Advisor Coordinator. Your role is to:"
      [] role = SKILLS_ANALYZER -> "You are a Skills Analysis Agent. Your role is to:"
      [] role = CAREER_MATCHER -> "You are a Career Matching Agent. Your role is to:"
      [] role = LEARNING_PATHFINDER -> "You are a Learning Path Agent. Your role is to:"
      [] role = INDUSTRY_RESEARCHER -> "You are an Industry Research Agent. Your role is to:"

\* C7: the system prompt of every model call is the fixed prompt of the
\* operation that makes it, and an initialized advisor holds one agent for
\* each of the five roles, each with a prompt.
C7_FixedRolePrompt ==
    /\ InRequest =>
         \A i \in 1..Len(calls) :
             /\ calls[i].request.agent = OperationAgent(i)
             /\ calls[i].request.system[1] = PromptTitle(OperationAgent(i))
    /\ advisor # None =>
         /\ DOMAIN advisor[1].agents = AgentRole
         /\ \A r \in AgentRole : advisor[1].agents[r].role = r
         /\ Len(created) = Cardinality(AgentRole)
         /\ \A r \in AgentRole : get_system_prompt(r)[1] = PromptTitle(r)

C7_Witness ==
    /\ InRequest /\ req.endpoint = "/create/learning-path" /\ Len(calls) = 1
    /\ calls[1].request.agent = LEARNING_PATHFINDER

\* C8: when construction failed at startup, every advisory request ends with
\* 500 "Advisor not initialized" and no model call, / and /health succeed,
\* and /health reports healthy and whether the advisor was constructed.
C8_NotInitialized ==
    (entry = "api_server" /\ pc # "boot") =>
        /\ (advisor = None) = ~Truthy(env)
        /\ advisor = None => calls = <<>>
        /\ (advisor = None /\ req.endpoint \in AdvisoryEndpoints) =>
             /\ pc = "done"
             /\ resp = Some([kind |-> "http", status |-> 500,
                             body |-> [detail |-> "Advisor not initialized"]])
        /\ req.endpoint = "/" => (Succeeded /\ calls = <<>>)
        /\ req.endpoint = "/health" =>
             /\ calls = <<>>
             /\ resp = Some([kind |-> "http", status |-> 200,
                             body |-> [status |-> "healthy",
                                       advisor_initialized |-> Truthy(env)]])

C8_Witness ==
    /\ entry = "api_server" /\ advisor = None /\ pc = "done"
    /\ req.endpoint = "/advice/comprehensive" /\ served = 2

\* C9: process sends exactly one user message: "Context: ", the context as
\* str() renders it, a blank line and the query when the context is
\* non-empty, the query alone when it is None or empty.
C9_SingleUserMessage ==
    /\ \A i \in 1..Len(calls) :
         /\ Len(calls[i].request.messages) = 1
         /\ calls[i].request.messages[1].role = "user"
         /\ DOMAIN calls[i].request.messages[1] = {"role", "content"}
    /\ (req.endpoint = "process" /\ Len(calls) = 1) =>
         Content(1) =
            IF req.context = None \/ req.context = Some(<<>>)
            THEN req.query
            ELSE <<"Context: ">> \o DictStr(req.context[1]) \o <<NL, NL>> \o req.query

C9_Witness ==
    /\ req.endpoint = "process" /\ Len(calls) = 1 /\ served = 2
    /\ req.context # None /\ Len(req.context[1]) = 2 /\ req.query # <<>>

\* C10: the constructor raises ValueError, with no agent created, exactly
\* when neither the api_key argument nor the environment variable is
\* non-empty; otherwise the argument wins over the environment and all five
\* agents get that key.  The API server maps the ValueError to advisor None.
C10_Construction ==
    /\ req.endpoint = "__init__" =>
         IF ~Truthy(req.api_key) /\ ~Truthy(env)
         THEN /\ pc = "exit" /\ advisor = None /\ created = <<>>
              /\ resp = Some(Raised("ANTHROPIC_API_KEY not found"))
         ELSE /\ pc = "idle" /\ advisor # None /\ resp = None
              /\ advisor[1].api_key = (IF Truthy(req.api_key) THEN req.api_key[1] ELSE env[1])
              /\ Len(created) = 5
              /\ \A k \in 1..Len(created) : created[k].api_key = advisor[1].api_key
              /\ \A r \in AgentRole : advisor[1].agents[r].api_key = advisor[1].api_key
    /\ (entry = "api_server" /\ pc # "boot") =>
         IF Truthy(env)
         THEN advisor # None /\ advisor[1].api_key = env[1] /\ Len(created) = 5
         ELSE advisor = None /\ created = <<>> /\ pc # "exit"

C10_Witness ==
    /\ req.endpoint = "__init__" /\ Truthy(req.api_key) /\ Truthy(env)
    /\ advisor # None /\ advisor[1].api_key = <<"sk-arg">>

====
